---- MODULE Spec2Model ----
(***************************************************************************)
(* Model of Local_IAM_Users_SecurityAutomation-role.py: the per-account    *)
(* loop of main (assume role, fetch the credential report, enrich every    *)
(* report line, append to the worksheet, save), and the pure helpers       *)
(* parse_key_age, check_password_unused and get_access_key_ids.            *)
(* A Python str is a TLA+ string; a Python list is a sequence.             *)
(***************************************************************************)
EXTENDS Integers, Sequences, FiniteSets

(***************************************************************************)
(* Bounds of the model.                                                    *)
(***************************************************************************)
MaxAccounts == 2

(***************************************************************************)
(* Program constants.                                                      *)
(***************************************************************************)
\* range(11): one iteration too many
PollAttemptsOffByOne == 10 + 1

PollAttempts == 10
UnusedDays == 90

(***************************************************************************)
(* Python str primitives.                                                  *)
(***************************************************************************)
\* s[a-1:b] : a slice clipped to the string, as Python slicing clips
Slice(s, a, b) ==
  LET lo == IF a < 1 THEN 1 ELSE a
      hi == IF b > Len(s) THEN Len(s) ELSE b
  IN  IF lo > hi THEN "" ELSE SubSeq(s, lo, hi)

\* the i-th character, "" beyond the end
Ch(s, i) == Slice(s, i, i)

Whitespace == {" ", "\n", "\t", "\r"}

RECURSIVE LStrip(_)
LStrip(s) ==
  IF Len(s) > 0 /\ Ch(s, 1) \in Whitespace
    THEN LStrip(Slice(s, 2, Len(s)))
    ELSE s

RECURSIVE RStrip(_)
RStrip(s) ==
  IF Len(s) > 0 /\ Ch(s, Len(s)) \in Whitespace
    THEN RStrip(Slice(s, 1, Len(s) - 1))
    ELSE s

\* str.strip()
Strip(s) == RStrip(LStrip(s))

\* str.split(sep) for a one-character separator: the pieces between the
\* occurrences of sep, empty pieces included
Split(s, sep) ==
  LET pos    == {i \in 1..Len(s) : Ch(s, i) = sep}
      Nth(k) == CHOOSE p \in pos : Cardinality({q \in pos : q < p}) = k - 1
      n      == Cardinality(pos) + 1
  IN  [k \in 1..n |->
         Slice(s, IF k = 1 THEN 1 ELSE Nth(k - 1) + 1,
                  IF k = n THEN Len(s) ELSE Nth(k) - 1)]

\* str.startswith(prefix)
StartsWith(s, prefix) ==
  Len(s) >= Len(prefix) /\ Slice(s, 1, Len(prefix)) = prefix

RECURSIVE Join(_, _)
Join(parts, sep) ==
  IF Len(parts) = 0 THEN ""
  ELSE IF Len(parts) = 1 THEN parts[1]
  ELSE parts[1] \o sep \o Join(Tail(parts), sep)

Digits == {"0", "1", "2", "3", "4", "5", "6", "7", "8", "9"}

DigitVal(c) ==
  CASE c = "0" -> 0 [] c = "1" -> 1 [] c = "2" -> 2 [] c = "3" -> 3
    [] c = "4" -> 4 [] c = "5" -> 5 [] c = "6" -> 6 [] c = "7" -> 7
    [] c = "8" -> 8 [] c = "9" -> 9

DigitChar(d) ==
  CASE d = 0 -> "0" [] d = 1 -> "1" [] d = 2 -> "2" [] d = 3 -> "3"
    [] d = 4 -> "4" [] d = 5 -> "5" [] d = 6 -> "6" [] d = 7 -> "7"
    [] d = 8 -> "8" [] d = 9 -> "9"

RECURSIVE NatToStr(_)
NatToStr(n) ==
  IF n < 10 THEN DigitChar(n)
  ELSE NatToStr(n \div 10) \o DigitChar(n % 10)

\* str(int)
IntToStr(n) == IF n < 0 THEN "-" \o NatToStr(0 - n) ELSE NatToStr(n)

\* zero-padded decimal of width w, as strftime's %Y (4), %m %d %H %M %S (2)
RECURSIVE Pad(_, _)
Pad(n, w) == IF w = 0 THEN "" ELSE Pad(n \div 10, w - 1) \o DigitChar(n % 10)

AllDigits(s) == \A i \in 1..Len(s) : Ch(s, i) \in Digits

RECURSIVE StrToNat(_)
StrToNat(s) ==
  IF Len(s) = 0 THEN 0
  ELSE 10 * StrToNat(Slice(s, 1, Len(s) - 1)) + DigitVal(Ch(s, Len(s)))

(***************************************************************************)
(* datetime: a record [Y, M, D, h, m, s] in UTC.                           *)
(***************************************************************************)
IsLeap(y) == (y % 4 = 0 /\ y % 100 # 0) \/ y % 400 = 0

DaysInMonth(y, m) ==
  IF m = 2 THEN (IF IsLeap(y) THEN 29 ELSE 28)
  ELSE IF m \in {4, 6, 9, 11} THEN 30 ELSE 31

\* day number of a civil date (proleptic Gregorian), as date.toordinal up to
\* a fixed offset
DayNumber(y, m, d) ==
  LET yy  == IF m <= 2 THEN y - 1 ELSE y
      era == yy \div 400
      yoe == yy - era * 400
      mp  == IF m > 2 THEN m - 3 ELSE m + 9
      doy == (153 * mp + 2) \div 5 + d - 1
      doe == yoe * 365 + yoe \div 4 - yoe \div 100 + doy
  IN  era * 146097 + doe

SecOfDay(dt) == dt.h * 3600 + dt.m * 60 + dt.s

\* (a - b).days : timedelta normalises to days plus a non-negative remainder,
\* so .days is the floor of the difference in days
DeltaDays(a, b) ==
  DayNumber(a.Y, a.M, a.D) - DayNumber(b.Y, b.M, b.D)
    - (IF SecOfDay(a) < SecOfDay(b) THEN 1 ELSE 0)

\* datetime.strftime("%Y-%m-%dT%H:%M:%SZ")
Strftime(dt) ==
  Pad(dt.Y, 4) \o "-" \o Pad(dt.M, 2) \o "-" \o Pad(dt.D, 2) \o "T"
    \o Pad(dt.h, 2) \o ":" \o Pad(dt.m, 2) \o ":" \o Pad(dt.s, 2) \o "Z"

\* The directive patterns of _strptime: each field is 1 or 2 characters
\* (the year exactly 4) and must match one alternative as a whole.
MatchY(f) == Len(f) = 4 /\ AllDigits(f)
Match_m(f) ==
  \/ Len(f) = 2 /\ Ch(f, 1) = "1" /\ Ch(f, 2) \in {"0", "1", "2"}
  \/ Len(f) = 2 /\ Ch(f, 1) = "0" /\ Ch(f, 2) \in Digits \ {"0"}
  \/ Len(f) = 1 /\ Ch(f, 1) \in Digits \ {"0"}
Match_d(f) ==
  \/ Len(f) = 2 /\ Ch(f, 1) = "3" /\ Ch(f, 2) \in {"0", "1"}
  \/ Len(f) = 2 /\ Ch(f, 1) \in {"1", "2"} /\ Ch(f, 2) \in Digits
  \/ Len(f) = 2 /\ Ch(f, 1) \in {"0", " "} /\ Ch(f, 2) \in Digits \ {"0"}
  \/ Len(f) = 1 /\ Ch(f, 1) \in Digits \ {"0"}
MatchH(f) ==
  \/ Len(f) = 2 /\ Ch(f, 1) = "2" /\ Ch(f, 2) \in {"0", "1", "2", "3"}
  \/ Len(f) = 2 /\ Ch(f, 1) \in {"0", "1"} /\ Ch(f, 2) \in Digits
  \/ Len(f) = 1 /\ Ch(f, 1) \in Digits
MatchM(f) ==
  \/ Len(f) = 2 /\ Ch(f, 1) \in {"0", "1", "2", "3", "4", "5"} /\ Ch(f, 2) \in Digits
  \/ Len(f) = 1 /\ Ch(f, 1) \in Digits
MatchS(f) ==
  \/ Len(f) = 2 /\ Ch(f, 1) = "6" /\ Ch(f, 2) \in {"0", "1"}
  \/ Len(f) = 2 /\ Ch(f, 1) \in {"0", "1", "2", "3", "4", "5"} /\ Ch(f, 2) \in Digits
  \/ Len(f) = 1 /\ Ch(f, 1) \in Digits

\* int() of a matched field (the day may carry a leading blank)
FieldVal(f) == StrToNat(LStrip(f))

\* The split of ts along "%Y-%m-%dT%H:%M:%SZ". No field can hold "-", ":",
\* "T" or "Z", so the literals delimit the fields; they are matched ignoring
\* case (re.IGNORECASE), and the whole string must be consumed.
NoMatch == [ok |-> FALSE]

\* "%H:%M:%SZ", given the three fields before it
ClockFields(Y, M, D, colon) ==
  IF Len(colon) = 3 /\ Ch(colon[3], Len(colon[3])) \in {"Z", "z"}
    THEN [ok |-> TRUE, Y |-> Y, M |-> M, D |-> D, h |-> colon[1], m |-> colon[2],
          s |-> Slice(colon[3], 1, Len(colon[3]) - 1)]
    ELSE NoMatch

\* "%dT" and what follows, the day being the first ld characters of rest
DayFields(Y, M, rest, ld) ==
  IF Ch(rest, ld + 1) \in {"T", "t"}
    THEN ClockFields(Y, M, Slice(rest, 1, ld), Split(Slice(rest, ld + 2, Len(rest)), ":"))
    ELSE NoMatch

\* "%Y-%m-" and what follows: the day is one character when a "T" comes second
DateFields(dash) ==
  IF Len(dash) = 3
    THEN DayFields(dash[1], dash[2], dash[3],
                   IF Ch(dash[3], 2) \in {"T", "t"} THEN 1 ELSE 2)
    ELSE NoMatch

Fields(ts) == DateFields(Split(ts, "-"))

\* the datetime constructor: ValueError for a value out of range
Datetime(dt) ==
  IF dt.Y >= 1 /\ dt.D <= DaysInMonth(dt.Y, dt.M) /\ dt.s <= 59
    THEN [ok |-> TRUE, dt |-> dt]
    ELSE NoMatch

\* the fields matched against their directives and converted with int()
Converted(f) ==
  IF /\ f.ok
     /\ MatchY(f.Y) /\ Match_m(f.M) /\ Match_d(f.D)
     /\ MatchH(f.h) /\ MatchM(f.m) /\ MatchS(f.s)
    THEN Datetime([Y |-> FieldVal(f.Y), M |-> FieldVal(f.M), D |-> FieldVal(f.D),
                   h |-> FieldVal(f.h), m |-> FieldVal(f.m), s |-> FieldVal(f.s)])
    ELSE NoMatch

\* datetime.strptime(ts, "%Y-%m-%dT%H:%M:%SZ"): [ok |-> FALSE] stands for the
\* ValueError of a mismatch, of unconverted data or of an out-of-range value.
Strptime(ts) == Converted(Fields(ts))

(***************************************************************************)
(* Helpers of the script.                                                  *)
(***************************************************************************)
\* str((now - dt).days) in the try block, "" from its except clause
KeyAge(p, now) == IF p.ok THEN IntToStr(DeltaDays(now, p.dt)) ELSE ""

\* parse_key_age(ts), with now the reading of datetime.now(timezone.utc)
parse_key_age(ts, now) ==
  IF ts \in {"N/A", ""} THEN "" ELSE KeyAge(Strptime(ts), now)

\* the comparison taken as "days >= 90"
UnusedStatusGe(days) == IF days >= UnusedDays THEN ">90 days" ELSE ""

\* return ">90 days" if days > 90 else ""
UnusedStatus(days) == IF days > UnusedDays THEN ">90 days" ELSE ""

\* the try block of check_password_unused, "" from its except clause
PasswordUnused(p, now) == IF p.ok THEN UnusedStatus(DeltaDays(now, p.dt)) ELSE ""

\* check_password_unused(ts), with now the reading of datetime.now(timezone.utc)
check_password_unused(ts, now) ==
  IF ts \in {"N/A", ""} THEN "" ELSE PasswordUnused(Strptime(ts), now)

\* A Python dict is a function on its key set.
EmptyDict == [k \in {} |-> ""]

\* dict.get(k, default)
DictGet(d, k, default) == IF k \in DOMAIN d THEN d[k] ELSE default

Max(S) == CHOOSE m \in S : \A n \in S : n <= m

\* the comprehension with key and value swapped
get_access_key_ids_swapped(resp) ==
  IF resp.ok
    THEN [id \in {resp.keys[i].AccessKeyId : i \in 1..Len(resp.keys)} |->
            Strftime(resp.keys[Max({i \in 1..Len(resp.keys) :
                                      resp.keys[i].AccessKeyId = id})].CreateDate)]
    ELSE EmptyDict

\* get_access_key_ids(iam, username), given the answer of list_access_keys:
\* resp.ok = FALSE is a raised exception, resp.keys the AccessKeyMetadata list.
\* The comprehension keeps the last key of each CreateDate.
get_access_key_ids(resp) ==
  IF resp.ok
    THEN [ts \in {Strftime(resp.keys[i].CreateDate) : i \in 1..Len(resp.keys)} |->
            resp.keys[Max({i \in 1..Len(resp.keys) :
                             Strftime(resp.keys[i].CreateDate) = ts})].AccessKeyId]
    ELSE EmptyDict

\* dict(zip(header_fields, row_values)): zip stops at the shorter list, a
\* repeated field keeps its last value
RowDict(header_fields, row_values) ==
  LET n == IF Len(header_fields) < Len(row_values)
             THEN Len(header_fields) ELSE Len(row_values)
  IN  [f \in {header_fields[i] : i \in 1..n} |->
         row_values[Max({i \in 1..n : header_fields[i] = f})]]

\* list[:n] and list[n:]
Take(l, n) == SubSeq(l, 1, IF n < Len(l) THEN n ELSE Len(l))
Drop(l, n) == SubSeq(l, (IF n < Len(l) THEN n ELSE Len(l)) + 1, Len(l))

exclude_fields ==
  {"cert_1_active", "cert_1_last_rotated", "cert_2_active", "cert_2_last_rotated",
   "password_last_used", "password_last_changed", "password_next_rotation"}

IsIncluded(f) == f \notin exclude_fields

\* included_fields = [f for f in header_fields if f not in exclude_fields]
IncludedFields(header_fields) == SelectSeq(header_fields, IsIncluded)

DerivedColumns ==
  <<"access_key_1_id", "access_key_2_id", "access_key_1_age", "access_key_2_age",
    "password_unused_status">>

\* final_header
FinalHeader(included_fields) ==
  Take(included_fields, 2) \o <<"account_id">> \o Drop(included_fields, 2)
    \o DerivedColumns

\* final_row, from the row's dict and its five derived values
FinalRow(row_dict, included_fields, account_id, derived) ==
  LET filtered_values == [i \in 1..Len(included_fields) |-> row_dict[included_fields[i]]]
  IN  Take(filtered_values, 2) \o <<account_id>> \o Drop(filtered_values, 2) \o derived

\* the test taken as username == "root"
IsRootByName(username) == username = "root"

\* username.startswith("<root_account>")
IsRoot(username) == StartsWith(username, "<root_account>")

\* the truth value of report_csv: None and "" are both false
None == [none |-> TRUE, text |-> ""]
Some(t) == [none |-> FALSE, text |-> t]
Truthy(r) == ~r.none /\ r.text # ""

\* the row inserted at the top of the sheet
WsInsertFirst(sheet, row) == <<row>> \o sheet

\* ws.append(row)
WsAppend(sheet, row) == Append(sheet, row)

\* the header written for every account
HeaderDueAlways(written) == TRUE

\* "if not header_written"
HeaderDue(written) == ~written

(***************************************************************************)
(* Inputs: the account list, the reports IAM serves, the access keys IAM   *)
(* lists, and the readings of the clock.                                   *)
(***************************************************************************)
AllAccounts == <<"111111111111", "222222222222", "333333333333", "444444444444">>

\* the lists get_account_list may return (no empty identifier)
AccountLists == {SubSeq(AllAccounts, 1, n) : n \in 0..MaxAccounts}

DA == [Y |-> 2024, M |-> 6, D |-> 25, h |-> 12, m |-> 0, s |-> 0]
DB == [Y |-> 2024, M |-> 7, D |-> 1, h |-> 0, m |-> 0, s |-> 0]
DP == [Y |-> 2024, M |-> 4, D |-> 1, h |-> 0, m |-> 0, s |-> 0]

\* the times a run may happen at: two seconds apart, across midnight
NowValues ==
  << [Y |-> 2024, M |-> 6, D |-> 30, h |-> 23, m |-> 59, s |-> 59],
     [Y |-> 2024, M |-> 7, D |-> 1, h |-> 0, m |-> 0, s |-> 1] >>

LayoutA ==
  <<"user", "arn", "password_last_used",
    "access_key_1_last_rotated", "access_key_2_last_rotated">>
LayoutB ==
  <<"user", "arn", "mfa_active", "password_last_used", "access_key_1_last_rotated",
    "cert_1_active", "access_key_2_last_rotated">>

\* the report layout of the i-th account: the layouts alternate
LayoutOf(i) == IF i % 2 = 1 THEN LayoutA ELSE LayoutB

RootUser == [user |-> "<root_account>", pw |-> Strftime(DP),
             k1 |-> Strftime(DA), k2 |-> "N/A"]
Alice == [user |-> "alice", pw |-> Strftime(DP),
          k1 |-> Strftime(DA), k2 |-> "N/A"]
Bob == [user |-> "bob", pw |-> "no_information",
        k1 |-> "2024-7-1T00:00:00Z", k2 |-> Strftime(DB)]
IamUsers == {Alice, Bob}

\* the lines of a report: the root account first, then IAM users, each at
\* most once, in any order
RowSeqs ==
  { <<RootUser>> \o q :
      q \in {r \in UNION {[1..k -> IamUsers] : k \in 0..Cardinality(IamUsers)} :
               \A i, j \in 1..Len(r) : i # j => r[i] # r[j]} }

\* a served report of no content
EmptyReport == [layout |-> <<>>, rows |-> <<>>]

\* the reports the i-th account may serve: its header layout, its users
ReportInputs(i) == [layout : {LayoutOf(i)}, rows : RowSeqs] \cup {EmptyReport}

Cell(f, r) ==
  CASE f = "user" -> r.user
    [] f = "arn" -> "arn:" \o r.user
    [] f = "password_last_used" -> r.pw
    [] f = "access_key_1_last_rotated" -> r.k1
    [] f = "access_key_2_last_rotated" -> r.k2
    [] OTHER -> "false"

\* the text of a report: header line, one line per user, a final newline
Content(rep) ==
  IF rep = EmptyReport THEN ""
  ELSE Join(<<Join(rep.layout, ",")>> \o
            [i \in 1..Len(rep.rows) |->
               Join([j \in 1..Len(rep.layout) |-> Cell(rep.layout[j], rep.rows[i])], ",")],
            "\n") \o "\n"

\* the text of every report of the model
ReportText == [rep \in ReportInputs(1) \cup ReportInputs(2) |-> Content(rep)]

Key(id, created) == [AccessKeyId |-> id, CreateDate |-> created]

\* the access keys IAM holds for a user
KeysOf(username) ==
  IF username = "alice" THEN <<Key("AKIA1", DA), Key("AKIA2", DB)>>
  ELSE IF username = "bob" THEN <<Key("AKIA3", DB), Key("AKIA4", DB)>>
  ELSE <<>>

\* the answers of list_access_keys(UserName=username): an exception, or the
\* user's keys
KeyResponses(username) ==
  { [ok |-> FALSE, keys |-> <<>>], [ok |-> TRUE, keys |-> KeysOf(username)] }

(***************************************************************************)
(* State.                                                                  *)
(***************************************************************************)
VARIABLES
  accounts,        \* main: accounts
  idx,             \* main: position of "for account_id in accounts" (1-based)
  pc,              \* the statement main is at
  attempt,         \* fetch_credential_report: iterations of range(10) done
  report_csv,      \* main: report_csv
  header_fields,   \* main: header_fields
  included_fields, \* main: included_fields
  data_lines,      \* main: data_lines
  line,            \* main: position of "for line in data_lines" (1-based)
  header_written,  \* main: header_written
  ws,              \* the worksheet: the rows appended so far
  saved,           \* wb.save(CSV_FILE) was called
  printed,         \* the lines printed to standard output
  clock,           \* the time of the run: an index in NowValues
  apiCalls,        \* history: per account, the AWS calls made and their outcome
  getCalls,        \* history: get_credential_report calls of this invocation
  served,          \* history: the reports get_credential_report returned
  keyLog,          \* history: the list_access_keys answers, per report line
  fn_ts, fn_now, fn_out, fn_pc  \* a single call of check_password_unused

mainVars ==
  <<accounts, idx, pc, attempt, report_csv, header_fields, included_fields,
    data_lines, line, header_written, ws, saved, printed, clock,
    apiCalls, getCalls, served, keyLog>>
fnVars == <<fn_ts, fn_now, fn_out, fn_pc>>
vars == <<mainVars, fnVars>>

account_id == accounts[idx]

\* datetime.now(timezone.utc): the readings of one run fall on the same side
\* of every day boundary the model's timestamps have
now == NowValues[clock]

Called(i, what) == [apiCalls EXCEPT ![i] = @ \cup {what}]

Stdout(level, acct) == Append(printed, <<level, acct>>)

MainInit ==
  /\ accounts \in AccountLists
  /\ idx = 1
  /\ pc = "loop"
  /\ attempt = 0
  /\ report_csv = None
  /\ header_fields = <<>>
  /\ included_fields = <<>>
  /\ data_lines = <<>>
  /\ line = 1
  /\ header_written = FALSE
  /\ ws = <<>>
  /\ saved = FALSE
  /\ printed = <<>>
  /\ clock \in 1..Len(NowValues)
  /\ apiCalls = [i \in 1..Len(accounts) |-> {}]
  /\ getCalls = 0
  /\ served = <<>>
  /\ keyLog = <<>>

FnIdle ==
  /\ fn_ts = ""
  /\ fn_now = NowValues[1]
  /\ fn_out = ""
  /\ fn_pc = "idle"

Init == MainInit /\ FnIdle

\* "continue", or the end of the body: the locals of the iteration are dead
NextAccount ==
  /\ idx' = idx + 1
  /\ pc' = "loop"
  /\ attempt' = 0
  /\ report_csv' = None
  /\ header_fields' = <<>>
  /\ included_fields' = <<>>
  /\ data_lines' = <<>>
  /\ line' = 1
  /\ getCalls' = 0

(***************************************************************************)
(* main, lines 90-96: assume_role and session.client.                      *)
(***************************************************************************)
AssumeRole ==
  /\ pc = "loop" /\ idx <= Len(accounts)
  /\ pc' = "generate"
  /\ apiCalls' = Called(idx, "assume_role")
  /\ UNCHANGED <<accounts, idx, attempt, report_csv, header_fields, included_fields,
                 data_lines, line, header_written, ws, saved, printed, clock,
                 getCalls, served, keyLog, fnVars>>

\* the handler without its "continue": the body goes on after the message
AssumeRoleFailsNoContinue ==
  /\ pc = "loop" /\ idx <= Len(accounts)
  /\ apiCalls' = Called(idx, "assume_role")
  /\ printed' = Stdout("[ERROR]", account_id)
  /\ pc' = "generate"
  /\ UNCHANGED <<accounts, idx, attempt, report_csv, header_fields, included_fields,
                 data_lines, line, header_written, ws, saved, clock,
                 getCalls, served, keyLog, fnVars>>

\* sts.assume_role or session.client("iam") raises: print and continue
AssumeRoleFails ==
  /\ pc = "loop" /\ idx <= Len(accounts)
  /\ apiCalls' = Called(idx, "assume_role")
  /\ printed' = Stdout("[ERROR]", account_id)
  /\ NextAccount
  /\ UNCHANGED <<accounts, header_written, ws, saved, clock, served, keyLog, fnVars>>

(***************************************************************************)
(* fetch_credential_report, lines 43-54.                                   *)
(***************************************************************************)
GenerateReport ==
  /\ pc = "generate"
  /\ apiCalls' = Called(idx, "generate_credential_report")
  /\ pc' = "poll"
  /\ attempt' = 0
  /\ UNCHANGED <<accounts, idx, report_csv, header_fields, included_fields,
                 data_lines, line, header_written, ws, saved, printed, clock,
                 getCalls, served, keyLog, fnVars>>

\* generate_credential_report raises: "return None"
GenerateReportFails ==
  /\ pc = "generate"
  /\ apiCalls' = [apiCalls EXCEPT ![idx] =
                     @ \cup {"generate_credential_report", "generate_credential_report:error"}]
  /\ report_csv' = None
  /\ pc' = "fetched"
  /\ UNCHANGED <<accounts, idx, attempt, header_fields, included_fields,
                 data_lines, line, header_written, ws, saved, printed, clock,
                 getCalls, served, keyLog, fnVars>>

\* get_credential_report answers: the decoded content is returned
GetReport ==
  /\ pc = "poll" /\ attempt < PollAttempts
  /\ \E rep \in ReportInputs(idx) :
       /\ report_csv' = Some(ReportText[rep])
       /\ served' = Append(served, [acct |-> idx, rep |-> rep])
  /\ apiCalls' = Called(idx, "get_credential_report")
  /\ getCalls' = getCalls + 1
  /\ pc' = "fetched"
  /\ UNCHANGED <<accounts, idx, attempt, header_fields, included_fields,
                 data_lines, line, header_written, ws, saved, printed, clock,
                 keyLog, fnVars>>

\* CredentialReportNotReadyException: sleep, next iteration; after the last
\* iteration "return None"
GetReportNotReady ==
  /\ pc = "poll" /\ attempt < PollAttempts
  /\ apiCalls' = Called(idx, "get_credential_report")
  /\ getCalls' = getCalls + 1
  /\ attempt' = attempt + 1
  /\ IF attempt + 1 < PollAttempts
       THEN UNCHANGED <<pc, report_csv>>
       ELSE pc' = "fetched" /\ report_csv' = None
  /\ UNCHANGED <<accounts, idx, header_fields, included_fields,
                 data_lines, line, header_written, ws, saved, printed, clock,
                 served, keyLog, fnVars>>

\* any other exception of get_credential_report is not caught, neither in
\* fetch_credential_report nor in main
GetReportRaises ==
  /\ pc = "poll" /\ attempt < PollAttempts
  /\ apiCalls' = Called(idx, "get_credential_report")
  /\ getCalls' = getCalls + 1
  /\ pc' = "aborted"
  /\ UNCHANGED <<accounts, idx, attempt, report_csv, header_fields, included_fields,
                 data_lines, line, header_written, ws, saved, printed, clock,
                 served, keyLog, fnVars>>

(***************************************************************************)
(* main, lines 98-122: the report is split and the header written once.    *)
(***************************************************************************)
NoReport ==
  /\ pc = "fetched" /\ ~Truthy(report_csv)
  /\ printed' = Stdout("[WARNING]", account_id)
  /\ NextAccount
  /\ UNCHANGED <<accounts, header_written, ws, saved, clock, apiCalls,
                 served, keyLog, fnVars>>

SplitReport ==
  /\ pc = "fetched" /\ Truthy(report_csv)
  /\ LET lines == Split(Strip(report_csv.text), "\n")
         hf    == Split(Head(lines), ",")
         inc   == IncludedFields(hf)
     IN  /\ ws' = IF HeaderDue(header_written)
                    THEN WsAppend(ws, FinalHeader(inc)) ELSE ws
         /\ header_written' = TRUE
         /\ IF Len(lines) > 1
              THEN /\ header_fields' = hf
                   /\ included_fields' = inc
                   /\ data_lines' = Tail(lines)
                   /\ line' = 1
                   /\ pc' = "rows"
                   /\ attempt' = 0
                   /\ getCalls' = 0
                   /\ UNCHANGED <<idx, report_csv>>
              ELSE NextAccount
  /\ UNCHANGED <<accounts, saved, printed, clock, apiCalls, served, keyLog, fnVars>>

(***************************************************************************)
(* main, lines 124-149: one report line.                                   *)
(***************************************************************************)
\* the end of the body of "for line in data_lines"
NextLine ==
  IF line < Len(data_lines)
    THEN /\ line' = line + 1
         /\ UNCHANGED <<idx, pc, attempt, report_csv, header_fields,
                        included_fields, data_lines, getCalls>>
    ELSE NextAccount

RootRow ==
  /\ pc = "rows"
  /\ LET row_dict == RowDict(header_fields, Split(data_lines[line], ","))
     IN  /\ IsRoot(row_dict["user"])
         /\ ws' = WsAppend(ws, FinalRow(row_dict, included_fields, account_id,
                                        <<"", "", "", "", "">>))
  /\ NextLine
  /\ UNCHANGED <<accounts, header_written, saved, printed, clock, apiCalls,
                 served, keyLog, fnVars>>

UserRow ==
  /\ pc = "rows"
  /\ LET row_dict == RowDict(header_fields, Split(data_lines[line], ","))
         username == row_dict["user"]
     IN
     /\ ~IsRoot(username)
     /\ \E resp \in KeyResponses(username) :
          LET key_ids  == get_access_key_ids(resp)
              k1_rot   == row_dict["access_key_1_last_rotated"]
              k2_rot   == row_dict["access_key_2_last_rotated"]
              key1_age == parse_key_age(k1_rot, now)
              key2_age == parse_key_age(k2_rot, now)
              key1_id  == DictGet(key_ids, k1_rot, "")
              key2_id  == DictGet(key_ids, k2_rot, "")
              password_unused ==
                check_password_unused(row_dict["password_last_used"], now)
          IN  /\ ws' = WsAppend(ws, FinalRow(row_dict, included_fields, account_id,
                         <<key1_id, key2_id, key1_age, key2_age, password_unused>>))
              /\ apiCalls' = Called(idx, "list_access_keys")
              /\ keyLog' = Append(keyLog, [acct |-> idx, line |-> line, resp |-> resp])
  /\ NextLine
  /\ UNCHANGED <<accounts, header_written, saved, printed, clock, served, fnVars>>

(***************************************************************************)
(* main, lines 151-153: the workbook is saved.                             *)
(***************************************************************************)
Save ==
  /\ pc = "loop" /\ idx > Len(accounts)
  /\ saved' = TRUE
  /\ printed' = Stdout("[SUCCESS]", "")
  /\ pc' = "done"
  /\ UNCHANGED <<accounts, idx, attempt, report_csv, header_fields, included_fields,
                 data_lines, line, header_written, ws, clock, apiCalls,
                 getCalls, served, keyLog, fnVars>>

Next ==
  \/ AssumeRole \/ AssumeRoleFails
  \/ GenerateReport \/ GenerateReportFails
  \/ GetReport \/ GetReportNotReady \/ GetReportRaises
  \/ NoReport \/ SplitReport
  \/ RootRow \/ UserRow
  \/ Save

Spec == Init /\ [][Next]_vars

(***************************************************************************)
(* A single call of check_password_unused, on inputs of every shape.       *)
(***************************************************************************)
At(Y, M, D, h, m, sec) == [Y |-> Y, M |-> M, D |-> D, h |-> h, m |-> m, s |-> sec]

FnTimestamps ==
  {"", "N/A", "no_information",
   "2024-04-01T00:00:00Z", "2024-4-1t0:0:0z", "2024-04- 1T00:00:00Z",
   "2024-04-01T00:00:01Z", "2024-07-15T00:00:00Z",
   "2024-04-01T00:00:00+00:00", "2024-04-01 00:00:00",
   "2023-02-29T00:00:00Z", "2024-04-01T00:00:60Z", "2024-04-01T24:00:00Z",
   "0000-04-01T00:00:00Z"}

FnNows ==
  {At(2024, 3, 31, 23, 59, 59), At(2024, 6, 29, 23, 59, 59), At(2024, 6, 30, 0, 0, 0),
   At(2024, 6, 30, 23, 59, 59), At(2024, 7, 1, 0, 0, 0), At(2024, 7, 1, 0, 0, 1),
   At(2025, 1, 1, 0, 0, 0)}

MainIdle ==
  /\ MainInit
  /\ accounts = <<>>
  /\ clock = 1

FnInit ==
  /\ MainIdle
  /\ fn_ts \in FnTimestamps
  /\ fn_now \in FnNows
  /\ fn_out = ""
  /\ fn_pc = "call"

FnCall ==
  /\ fn_pc = "call"
  /\ fn_out' = check_password_unused(fn_ts, fn_now)
  /\ fn_pc' = "returned"
  /\ UNCHANGED <<mainVars, fn_ts, fn_now>>

FnNext == FnCall

SpecFn == FnInit /\ [][FnNext]_vars

(***************************************************************************)
(* What the properties speak of.                                           *)
(***************************************************************************)
Range(f) == {f[i] : i \in DOMAIN f}

Last(q) == q[Len(q)]

\* the served reports main has split so far: those of content, in the order
\* served
IsTaken(e) ==
  /\ e.rep # EmptyReport
  /\ \/ e.acct < idx
     \/ e.acct = idx /\ pc = "rows"
Taken == SelectSeq(served, IsTaken)

\* the lines of a taken report that main has gone through
LinesDone(e) ==
  IF e.acct = idx /\ pc = "rows" THEN line - 1 ELSE Len(e.rep.rows)

\* the taken report of the i-th account
TakenOf(i) == CHOOSE e \in Range(Taken) : e.acct = i

RECURSIVE SumLines(_)
SumLines(q) == IF q = <<>> THEN 0 ELSE Len(Head(q).rep.rows) + SumLines(Tail(q))

EarlierThan(i) == LET Before(e) == e.acct < i IN SelectSeq(Taken, Before)

\* the sheet row of line j of the i-th account's report: after the header
\* and after the lines of the earlier accounts
RowIndex(i, j) == 1 + SumLines(EarlierThan(i)) + j

\* the five derived values end a row
Derived(row) == SubSeq(row, Len(row) - 4, Len(row))

\* <<account, user>> of every line main has gone through, in account order
\* and report order
RECURSIVE ExpectedOrder(_)
ExpectedOrder(q) ==
  IF q = <<>> THEN <<>>
  ELSE LET e == Head(q)
       IN  [j \in 1..LinesDone(e) |-> <<accounts[e.acct], e.rep.rows[j].user>>]
             \o ExpectedOrder(Tail(q))

\* the header of each layout: the report's fields without the excluded ones,
\* account_id third, then the derived columns
ExpectedHeader(layout) ==
  IF layout = LayoutA
    THEN <<"user", "arn", "account_id",
           "access_key_1_last_rotated", "access_key_2_last_rotated",
           "access_key_1_id", "access_key_2_id", "access_key_1_age",
           "access_key_2_age", "password_unused_status">>
    ELSE <<"user", "arn", "account_id", "mfa_active",
           "access_key_1_last_rotated", "access_key_2_last_rotated",
           "access_key_1_id", "access_key_2_id", "access_key_1_age",
           "access_key_2_age", "password_unused_status">>

\* the included values of a line, with the account third
ExpectedValues(layout, r, acct) ==
  IF layout = LayoutA
    THEN <<r.user, "arn:" \o r.user, acct, r.k1, r.k2>>
    ELSE <<r.user, "arn:" \o r.user, acct, "false", r.k1, r.k2>>

Failed(i) == <<"[ERROR]", accounts[i]>> \in Range(printed)

(***************************************************************************)
(* C1: an account whose role assumption fails contributes no row, gets no  *)
(* credential-report or access-key call, and the loop moves on to the next *)
(* account.                                                                *)
(***************************************************************************)
C1_AssumeFailureSkipsAccount ==
  \A i \in 1..Len(accounts) :
    Failed(i) =>
      /\ apiCalls[i] = {"assume_role"}
      /\ \A r \in 1..Len(ws) : ws[r][3] # accounts[i]
      /\ \A e \in Range(served) \cup Range(keyLog) : e.acct # i
      /\ idx > i

\* a failed account is followed by an account whose rows are in the sheet
C1_Witness ==
  \E i, j \in 1..Len(accounts) :
    /\ i < j /\ Failed(i)
    /\ \E r \in 1..Len(ws) : ws[r][3] = accounts[j]

(***************************************************************************)
(* C2: fetch_credential_report calls get_credential_report at most 10      *)
(* times; it returns the content of the first call that answers, with no   *)
(* call after it, and None when 10 calls answered "not ready".             *)
(***************************************************************************)
ServedNow == LET Mine(e) == e.acct = idx IN SelectSeq(served, Mine)

C2_BoundedPolling ==
  /\ getCalls <= 10
  /\ attempt <= 10
  /\ Len(ServedNow) <= 1
  /\ (pc = "poll") => (getCalls = attempt /\ getCalls < 10 /\ ServedNow = <<>>)
  /\ (pc = "fetched" /\ ~report_csv.none) =>
       /\ getCalls \in 1..10
       /\ getCalls = attempt + 1
       /\ Len(ServedNow) = 1
       /\ report_csv.text = Content(ServedNow[1].rep)
  /\ (pc = "fetched" /\ report_csv.none /\ "get_credential_report" \in apiCalls[idx]) =>
       /\ getCalls = 10
       /\ ServedNow = <<>>
  /\ (getCalls = 10 /\ ServedNow = <<>> /\ pc # "aborted") =>
       (pc = "fetched" /\ report_csv.none)

\* ten calls answered "not ready" and None was returned
C2_Witness ==
  pc = "fetched" /\ report_csv.none /\ getCalls = 10

(***************************************************************************)
(* C3: an error of generate_credential_report is ignored: the fetcher      *)
(* still polls get_credential_report.                                      *)
(***************************************************************************)
C3_GenerateErrorIgnored ==
  (/\ pc = "fetched"
   /\ "generate_credential_report:error" \in apiCalls[idx])
    => "get_credential_report" \in apiCalls[idx]

(***************************************************************************)
(* C4: when no row was accumulated the output file is not written.         *)
(***************************************************************************)
C4_NoRowsNoFile == saved => ws # <<>>

(***************************************************************************)
(* C5: no error of assume-role, generate-report, get-report or             *)
(* list-access-keys aborts the run.                                        *)
(***************************************************************************)
C5_NoErrorAbortsRun == pc # "aborted"

(***************************************************************************)
(* C6: once a report has been fetched the sheet starts with one header,    *)
(* that of the first fetched report's layout, and holds no other header;   *)
(* with no report fetched there is no header.                              *)
(***************************************************************************)
C6_HeaderOnce ==
  IF Taken = <<>>
    THEN ws = <<>>
    ELSE /\ Len(ws) >= 1
         /\ ws[1] = ExpectedHeader(Taken[1].rep.layout)
         /\ \A r \in 2..Len(ws) : ws[r][3] \in Range(accounts)

\* two reports of different layouts were merged, each with users
C6_Witness ==
  /\ pc = "done" /\ Len(Taken) = 2
  /\ Taken[1].rep.layout # Taken[2].rep.layout
  /\ Len(Taken[1].rep.rows) > 1 /\ Len(Taken[2].rep.rows) > 1

(***************************************************************************)
(* C7: the data rows are in account-list order and, within an account, in  *)
(* report order, one per report line; a row once appended stays.           *)
(***************************************************************************)
DataRows == IF ws = <<>> THEN <<>> ELSE Tail(ws)

RowsInOrder ==
  [r \in 1..Len(DataRows) |-> <<DataRows[r][3], DataRows[r][1]>>] = ExpectedOrder(Taken)

RowsStay ==
  /\ Len(ws') >= Len(ws)
  /\ \A r \in 1..Len(ws) : ws'[r] = ws[r]

C7_RowOrder == [](RowsInOrder) /\ [][RowsStay]_vars

\* two accounts merged, the second with its users in the order bob, alice
C7_Witness ==
  /\ pc = "done" /\ Len(Taken) = 2
  /\ Len(Taken[1].rep.rows) = 3
  /\ Len(Taken[2].rep.rows) = 3
  /\ Taken[2].rep.rows[2].user = "bob"

(***************************************************************************)
(* C8: each key slot of a non-root row gets the identifier of a listed key *)
(* whose formatted creation time equals the slot's last-rotated value, and *)
(* the empty identifier when none does; when the key lookup fails both     *)
(* identifiers are empty and the ages are still computed.                  *)
(***************************************************************************)
Matching(resp, rotated) ==
  IF resp.ok
    THEN {k \in Range(resp.keys) : Strftime(k.CreateDate) = rotated}
    ELSE {}

SlotOk(resp, rotated, id) ==
  IF Matching(resp, rotated) = {}
    THEN id = ""
    ELSE id \in {k.AccessKeyId : k \in Matching(resp, rotated)}

C8_KeyIdentifiers ==
  \A e \in Range(keyLog) :
    LET src == TakenOf(e.acct).rep.rows[e.line]
        d   == Derived(ws[RowIndex(e.acct, e.line)])
    IN  /\ ~IsRoot(src.user)
        /\ SlotOk(e.resp, src.k1, d[1])
        /\ SlotOk(e.resp, src.k2, d[2])
        /\ (src.k1 = "N/A") => d[1] = ""
        /\ (src.k2 = "N/A") => d[2] = ""
        /\ ~e.resp.ok =>
             /\ d[1] = "" /\ d[2] = ""
             /\ d[3] = parse_key_age(src.k1, now)
             /\ d[4] = parse_key_age(src.k2, now)

\* one lookup matched a key, another lookup failed on a row that has an age
C8_Witness ==
  /\ pc = "done"
  /\ \E e \in Range(keyLog) :
       e.resp.ok /\ Derived(ws[RowIndex(e.acct, e.line)])[1] = "AKIA1"
  /\ \E e \in Range(keyLog) :
       e.resp.ok /\ Derived(ws[RowIndex(e.acct, e.line)])[2] = "AKIA4"
  /\ \E e \in Range(keyLog) :
       ~e.resp.ok /\ Derived(ws[RowIndex(e.acct, e.line)])[3] = "5"

(***************************************************************************)
(* C9: a root-account line yields a row of its included fields with the    *)
(* account's id and five empty derived fields, and no list_access_keys     *)
(* call is made for it.                                                    *)
(***************************************************************************)
C9_RootRow ==
  \A e \in Range(Taken) :
    \A j \in 1..LinesDone(e) :
      e.rep.rows[j].user = "<root_account>" =>
        /\ ws[RowIndex(e.acct, j)] =
             ExpectedValues(e.rep.layout, e.rep.rows[j], accounts[e.acct])
               \o <<"", "", "", "", "">>
        /\ \A k \in Range(keyLog) : ~(k.acct = e.acct /\ k.line = j)

\* a root line that holds parsable timestamps went through
C9_Witness ==
  \E e \in Range(Taken) :
    /\ LinesDone(e) >= 1
    /\ e.rep.rows[1].user = "<root_account>"
    /\ Strptime(e.rep.rows[1].k1).ok
    /\ Strptime(e.rep.rows[1].pw).ok

(***************************************************************************)
(* C10: check_password_unused returns ">90 days" exactly when the          *)
(* timestamp parses and more than 90 whole days have elapsed, and the      *)
(* empty string in every other case.                                       *)
(***************************************************************************)
\* what Python's strptime makes of each input
FnParsed(ts) ==
  CASE ts \in {"2024-04-01T00:00:00Z", "2024-4-1t0:0:0z", "2024-04- 1T00:00:00Z"} ->
         [ok |-> TRUE, dt |-> At(2024, 4, 1, 0, 0, 0)]
    [] ts = "2024-04-01T00:00:01Z" -> [ok |-> TRUE, dt |-> At(2024, 4, 1, 0, 0, 1)]
    [] ts = "2024-07-15T00:00:00Z" -> [ok |-> TRUE, dt |-> At(2024, 7, 15, 0, 0, 0)]
    [] OTHER -> [ok |-> FALSE]

\* seconds since 2024-01-01T00:00:00, for the instants of 2024 and 2025-01
DaysBefore2024 == <<0, 31, 60, 91, 121, 152, 182, 213, 244, 274, 305, 335>>
Seconds(dt) ==
  (((dt.Y - 2024) * 366 + DaysBefore2024[dt.M] + dt.D - 1) * 24 + dt.h) * 3600
    + dt.m * 60 + dt.s

C10_PasswordUnused ==
  fn_pc = "returned" =>
    /\ fn_out \in {">90 days", ""}
    /\ fn_out = ">90 days" <=>
         /\ FnParsed(fn_ts).ok
         /\ Seconds(fn_now) - Seconds(FnParsed(fn_ts).dt) >= 91 * 86400

\* the boundary: exactly 90 days elapsed, and the result is empty
C10_Witness ==
  /\ fn_pc = "returned"
  /\ fn_ts = "2024-04-01T00:00:00Z"
  /\ fn_now = At(2024, 6, 30, 0, 0, 0)
  /\ fn_out = ""

====
